---- MODULE Spec2Model ----
(***************************************************************************)
(* Model of gpt4all-chat/cmake/sign_dmg.py: one run of sign_dmg, a linear  *)
(* pipeline of external tool invocations (hdiutil, codesign, spctl) and    *)
(* filesystem steps.  Python strings are sequences of one-character        *)
(* strings; Optional[str] values are records tagged "None" or "str".       *)
(* The environment decides every tool's exit status and captured output,   *)
(* whether copytree raises, and the order in which os.listdir lists names. *)
(* tempfile.mkdtemp and shutil.rmtree are taken to succeed.                *)
(***************************************************************************)
EXTENDS Integers, Sequences, FiniteSets

VARIABLES
    sha1_hash,        \* --sha1-hash option value
    signing_identity, \* --signing-identity option value
    verify,           \* --verify flag
    image,            \* names at the top level of the input DMG's volume
    pc,               \* position of the run in sign_dmg
    mount_point,      \* "absent" | "exists" | "removed"
    temp_dir,         \* "absent" | "exists" | "removed"
    attached,         \* the input image is mounted on mount_point
    contents,         \* names in temp_dir/contents after copytree
    app_bundle,       \* None or the path of the located bundle
    trace,            \* pipeline steps performed so far, in order
    printed,          \* messages written by print()
    uncaught,         \* name of the exception that ended the run, or ""
    exit_code         \* process exit status, -1 while running

vars == <<sha1_hash, signing_identity, verify, image, pc, mount_point, temp_dir,
          attached, contents, app_bundle, trace, printed, uncaught, exit_code>>

----------------------------------------------------------------------------
(* Bounds *)

MaxEntries == 2

----------------------------------------------------------------------------
(* Python values *)

NoneV == [kind |-> "None", val |-> <<>>]

Str(s) == [kind |-> "str", val |-> s]

Bytes(m) == [kind |-> "bytes", marker |-> m]

\* truth value of an Optional[str]: None and "" are falsy
Truthy(v) == v.kind = "str" /\ v.val # <<>>

\* Python's `a or b`
PyOr(a, b) == IF Truthy(a) THEN a ELSE b

\* str.endswith
EndsWith_Loose(s, suf) ==
    /\ Len(s) >= Len(suf) - 1
    /\ SubSeq(s, Len(s) - Len(suf) + 2, Len(s)) = Tail(suf)

EndsWith(s, suf) ==
    /\ Len(s) >= Len(suf)
    /\ SubSeq(s, Len(s) - Len(suf) + 1, Len(s)) = suf

\* os.path.join of relative components
Join(a, b) == a \o <<"/">> \o b

\* re.search(pattern, data): a str pattern applied to a bytes object raises
\* TypeError; otherwise the result is a match object or None
ReSearch(pattern, data) ==
    IF pattern.kind # data.kind THEN "TypeError"
    ELSE IF data.marker THEN "Match" ELSE "None"

\* subprocess.run raises CalledProcessError iff check=True and the exit
\* status is non-zero
CalledProcessError_Never(check, rc) == FALSE

CalledProcessError(check, rc) == check /\ rc # 0

----------------------------------------------------------------------------
(* Inputs and environment *)

DotApp == <<".", "a", "p", "p">>

TempDirPath == <<"/", "t">>

ContentsName == <<"c", "o", "n", "t", "e", "n", "t", "s">>

\* names an image may hold: two bundles, a plain file, a name ending in
\* "app" without the dot, a name with ".app" inside, and the bare suffix
NamePool ==
    { <<"A", ".", "a", "p", "p">>,
      <<"B", ".", "a", "p", "p">>,
      <<"R">>,
      <<"X", "a", "p", "p">>,
      <<".", "a", "p", "p", "z">>,
      <<".", "a", "p", "p">> }

Images == { S \in SUBSET NamePool : Cardinality(S) <= MaxEntries }

Fingerprints == { NoneV, Str(<<>>), Str(<<"H">>) }

CommonNames == { NoneV, Str(<<>>), Str(<<"N">>) }

ToolExit == { 0, 1 }

Step(op, rc, arg, target, marker) ==
    [op |-> op, rc |-> rc, arg |-> arg, target |-> target, marker |-> marker]

MsgIdentity == "Error: Either --signing-identity or --sha1-hash must be provided."

MsgNoBundle == "No .app bundle found in the DMG."

MsgCodesign == "Error during codesign"

MsgCheck(chk) ==
    IF chk = "codesign_verify" THEN "Error during codesign validation"
    ELSE "Error during spctl validation"

----------------------------------------------------------------------------
(* State after option parsing, before the body of sign_dmg runs *)

Init ==
    /\ sha1_hash \in Fingerprints
    /\ signing_identity \in CommonNames
    /\ verify \in BOOLEAN
    /\ image \in Images
    /\ pc = "start"
    /\ mount_point = "absent"
    /\ temp_dir = "absent"
    /\ attached = FALSE
    /\ contents = {}
    /\ app_bundle = NoneV
    /\ trace = <<>>
    /\ printed = <<>>
    /\ uncaught = ""
    /\ exit_code = -1

inputs == <<sha1_hash, signing_identity, verify, image>>

\* exit(code): SystemExit ends the process with that status
Exit(code) ==
    /\ pc' = "done"
    /\ exit_code' = code

\* an exception no handler catches: traceback, exit status 1
Raise(exc) ==
    /\ pc' = "done"
    /\ exit_code' = 1
    /\ uncaught' = exc

\* the two rmtree calls that follow each "Clean up temporary directories"
RmTrees ==
    /\ temp_dir' = "removed"
    /\ mount_point' = "removed"

----------------------------------------------------------------------------
(* Steps of sign_dmg *)

IdentityMissing_NoneOnly(sig, sha) == sig = NoneV /\ sha = NoneV

IdentityMissing(sig, sha) == ~Truthy(sig) /\ ~Truthy(sha)

CheckIdentity ==
    /\ pc = "start"
    /\ IF IdentityMissing(signing_identity, sha1_hash)
       THEN /\ printed' = Append(printed, MsgIdentity)
            /\ Exit(1)
       ELSE /\ pc' = "mount"
            /\ UNCHANGED <<printed, exit_code>>
    /\ UNCHANGED <<inputs, mount_point, temp_dir, attached, contents,
                   app_bundle, trace, uncaught>>

\* mkdtemp, then hdiutil attach; the exit status is not looked at
Mount ==
    /\ pc = "mount"
    /\ \E rc \in ToolExit :
        /\ mount_point' = "exists"
        /\ attached' = (rc = 0)
        /\ trace' = Append(trace, Step("attach", rc, NoneV, NoneV, FALSE))
    /\ pc' = "copy"
    /\ UNCHANGED <<inputs, temp_dir, contents, app_bundle, printed, uncaught,
                   exit_code>>

\* mkdtemp, then copytree of the mount point; an error in copytree is not
\* caught.  An unmounted mount point is an empty directory.
Copy ==
    /\ pc = "copy"
    /\ temp_dir' = "exists"
    /\ \E ok \in BOOLEAN :
        IF ok
        THEN /\ contents' = IF attached THEN image ELSE {}
             /\ trace' = Append(trace, Step("copy", 0, NoneV, NoneV, FALSE))
             /\ pc' = "detach"
             /\ UNCHANGED <<uncaught, exit_code>>
        ELSE /\ trace' = Append(trace, Step("copy", 1, NoneV, NoneV, FALSE))
             /\ Raise("shutil.Error")
             /\ UNCHANGED contents
    /\ UNCHANGED <<inputs, mount_point, attached, app_bundle, printed>>

\* hdiutil detach; the exit status is not looked at
Detach ==
    /\ pc = "detach"
    /\ \E rc \in ToolExit :
        /\ attached' = (attached /\ rc # 0)
        /\ trace' = Append(trace, Step("detach", rc, NoneV, NoneV, FALSE))
    /\ pc' = "scan"
    /\ UNCHANGED <<inputs, mount_point, temp_dir, contents, app_bundle,
                   printed, uncaught, exit_code>>

\* the names the loop over os.listdir can stop at: listdir's order is
\* arbitrary, so any matching name can be the first one met
Matches(dir) == { item \in dir : EndsWith(item, DotApp) }

BundlePath(item) == Join(Join(TempDirPath, ContentsName), item)

Scan ==
    /\ pc = "scan"
    /\ \E found \in IF Matches(contents) = {} THEN { NoneV }
                    ELSE { Str(BundlePath(item)) : item \in Matches(contents) } :
        /\ app_bundle' = found
        /\ IF ~Truthy(found)
           THEN /\ printed' = Append(printed, MsgNoBundle)
                /\ Exit(1)
           ELSE /\ pc' = "sign"
                /\ UNCHANGED <<printed, exit_code>>
    /\ trace' = Append(trace, Step("scan", 0, NoneV, NoneV, FALSE))
    /\ UNCHANGED <<inputs, mount_point, temp_dir, attached, contents, uncaught>>

ResolveIdentity_Swapped(sha, sig) == PyOr(sig, sha)

ResolveIdentity(sha, sig) == PyOr(sha, sig)

AfterSign_Inverted(v) == IF v THEN "create" ELSE "codesign_verify"

AfterSign(v) == IF v THEN "codesign_verify" ELSE "create"

Sign ==
    /\ pc = "sign"
    /\ \E rc \in ToolExit :
        /\ trace' = Append(trace, Step("sign", rc,
                           ResolveIdentity(sha1_hash, signing_identity),
                           app_bundle, FALSE))
        /\ IF CalledProcessError(TRUE, rc)
           THEN /\ printed' = Append(printed, MsgCodesign)
                /\ RmTrees
                /\ Exit(1)
           ELSE /\ pc' = AfterSign(verify)
                /\ UNCHANGED <<printed, temp_dir, mount_point, exit_code>>
    /\ UNCHANGED <<inputs, attached, contents, app_bundle, uncaught>>

VerifyChecks == { "codesign_verify", "spctl" }

AfterCheck(chk) == IF chk = "codesign_verify" THEN "spctl" ELSE "create"

\* what a verification try block raises: CalledProcessError from run, else
\* whatever re.search raises on the captured stdout, else RuntimeError when
\* the search finds nothing
CheckRaises(rc, out) ==
    IF CalledProcessError(TRUE, rc) THEN "CalledProcessError"
    ELSE IF ReSearch(app_bundle, out) = "TypeError" THEN "TypeError"
    ELSE IF ReSearch(app_bundle, out) = "None" THEN "RuntimeError"
    ELSE ""

\* one verification try block; stdout is captured without text=True, so it
\* is a bytes object.  Only CalledProcessError has a handler.
VerifyCheck(chk) ==
    /\ pc = chk
    /\ \E rc \in ToolExit, marker \in BOOLEAN :
        LET exc == CheckRaises(rc, Bytes(marker)) IN
        /\ trace' = Append(trace, Step(chk, rc, NoneV, app_bundle, marker))
        /\ IF exc = "CalledProcessError"
           THEN /\ printed' = Append(printed, MsgCheck(chk))
                /\ RmTrees
                /\ Exit(1)
                /\ UNCHANGED uncaught
           ELSE IF exc # ""
           THEN /\ Raise(exc)
                /\ UNCHANGED <<printed, temp_dir, mount_point>>
           ELSE /\ pc' = AfterCheck(chk)
                /\ UNCHANGED <<printed, temp_dir, mount_point, uncaught,
                               exit_code>>
    /\ UNCHANGED <<inputs, attached, contents, app_bundle>>

Verify == \E chk \in VerifyChecks : VerifyCheck(chk)

\* hdiutil create; the exit status is not looked at
Create ==
    /\ pc = "create"
    /\ \E rc \in ToolExit :
        trace' = Append(trace, Step("create", rc, NoneV, NoneV, FALSE))
    /\ pc' = "cleanup"
    /\ UNCHANGED <<inputs, mount_point, temp_dir, attached, contents,
                   app_bundle, printed, uncaught, exit_code>>

\* the final rmtree calls, then the function returns and click exits 0
Cleanup ==
    /\ pc = "cleanup"
    /\ RmTrees
    /\ Exit(0)
    /\ UNCHANGED <<inputs, attached, contents, app_bundle, trace, printed,
                   uncaught>>

Next ==
    \/ CheckIdentity
    \/ Mount
    \/ Copy
    \/ Detach
    \/ Scan
    \/ Sign
    \/ Verify
    \/ Create
    \/ Cleanup

Spec == Init /\ [][Next]_vars

----------------------------------------------------------------------------
(* Vocabulary of the properties, stated without the model's own helpers *)

Done == pc = "done"

Ops(op) == { i \in DOMAIN trace : trace[i].op = op }

Invoked(op) == Ops(op) # {}

ToolOps == { "attach", "detach", "sign", "codesign_verify", "spctl", "create" }

ExternalCalls == { i \in DOMAIN trace : trace[i].op \in ToolOps }

Given(v) == v.kind = "str" /\ Len(v.val) > 0

IsDotApp(n) ==
    /\ Len(n) >= 4
    /\ n[Len(n) - 3] = "."
    /\ n[Len(n) - 2] = "a"
    /\ n[Len(n) - 1] = "p"
    /\ n[Len(n)] = "p"

Bundles == { n \in contents : IsDotApp(n) }

BothRemoved == mount_point = "removed" /\ temp_dir = "removed"

NothingLeaked == mount_point # "exists" /\ temp_dir # "exists"

\* a verification step that passed: exit status zero and the expected text
Passed(i) == trace[i].rc = 0 /\ trace[i].marker

\* a verification step that did not pass, by exit status or by text
NotPassed(i) == trace[i].rc # 0 \/ (trace[i].rc = 0 /\ ~trace[i].marker)

----------------------------------------------------------------------------
(* C1 (as stated): every run that has terminated has removed both of the   *)
(* temporary directories it created, whichever step failed.                *)
C1_AllExitsCleanUp == Done => NothingLeaked

(* C2: with neither a fingerprint nor a common name (absent or empty) the  *)
(* run ends at once with a non-zero status; no external tool is invoked    *)
(* and no temporary directory is created.                                  *)
C2_NoIdentityFailsEarly ==
    (~Given(sha1_hash) /\ ~Given(signing_identity)) =>
        /\ trace = <<>>
        /\ mount_point = "absent"
        /\ temp_dir = "absent"
        /\ pc \in { "start", "done" }
        /\ Done => (exit_code # 0 /\ printed = <<MsgIdentity>>)

C2_Witness ==
    /\ Done
    /\ ~Given(sha1_hash) /\ ~Given(signing_identity)
    /\ sha1_hash # signing_identity
    /\ exit_code = 1

(* C3 (as stated): with an identity given, exactly one .app entry in the   *)
(* extracted contents, every tool invocation exiting zero and every        *)
(* verification output carrying the expected text, the run invokes image   *)
(* creation and ends with status 0, whether or not --verify is set.        *)
C3_SuccessPath ==
    ( /\ Done
      /\ Given(sha1_hash) \/ Given(signing_identity)
      /\ Cardinality(Bundles) = 1
      /\ \A i \in DOMAIN trace : trace[i].rc = 0
      /\ \A i \in Ops("codesign_verify") \cup Ops("spctl") : Passed(i) )
    => (Invoked("create") /\ exit_code = 0)

(* C4: a non-zero exit of the codesign signing invocation ends the run     *)
(* with a non-zero status and both temporary directories removed; image    *)
(* creation and the verification tools are never invoked.                  *)
C4_SignFailure ==
    (\E i \in Ops("sign") : trace[i].rc # 0) =>
        /\ Done
        /\ exit_code # 0
        /\ BothRemoved
        /\ ~Invoked("create")
        /\ ~Invoked("codesign_verify")
        /\ ~Invoked("spctl")
        /\ MsgCodesign = printed[Len(printed)]

C4_Witness ==
    /\ \E i \in Ops("sign") : trace[i].rc # 0
    /\ Done
    /\ verify

(* C5 (as stated): with --verify, a check that exits non-zero, or exits    *)
(* zero without the expected text, is reported, both temporary directories *)
(* are removed and the run exits non-zero; the two cases are handled alike. *)
C5_VerifyFailureCleansUp ==
    (\E i \in Ops("codesign_verify") \cup Ops("spctl") : NotPassed(i)) =>
        /\ Done
        /\ exit_code # 0
        /\ BothRemoved

(* C6: when the extracted contents hold no entry ending in ".app", the run *)
(* reports the error and exits non-zero; signing, verification and image   *)
(* creation are never invoked.                                             *)
C6_NoBundle ==
    ((\E k \in Ops("copy") : trace[k].rc = 0) /\ Bundles = {}) =>
        /\ ~Invoked("sign")
        /\ ~Invoked("codesign_verify")
        /\ ~Invoked("spctl")
        /\ ~Invoked("create")
        /\ pc \in { "detach", "scan", "done" }
        /\ Done => (exit_code # 0 /\ printed = <<MsgNoBundle>>)

C6_Witness ==
    /\ Done
    /\ Invoked("scan")
    /\ Bundles = {}
    /\ \E n \in contents : n[Len(n)] = "p"

(* C7 (as stated): a non-zero exit of any external tool is terminal: no    *)
(* further step is performed and the run ends with a non-zero status;      *)
(* status 0 only when no tool invocation failed.                           *)
C7_ToolFailureTerminal ==
    \A i \in ExternalCalls :
        trace[i].rc # 0 =>
            /\ i = Len(trace)
            /\ pc \notin { "create", "cleanup" }
            /\ Done => exit_code # 0

(* C8: the signing tool receives the fingerprint whenever a non-empty one  *)
(* is given, the common name only when no fingerprint is given, and never  *)
(* an empty identity.                                                      *)
C8_IdentityResolution ==
    \A i \in Ops("sign") :
        /\ Given(sha1_hash) => trace[i].arg = sha1_hash
        /\ ~Given(sha1_hash) => trace[i].arg = signing_identity
        /\ Given(trace[i].arg)

C8_Witness ==
    /\ Invoked("sign")
    /\ Given(sha1_hash)
    /\ Given(signing_identity)

(* C9: image creation is invoked at most once and only after the signing   *)
(* tool exited zero on the located bundle; with --verify only after the    *)
(* signature check and then the policy check both ran and passed; without  *)
(* --verify neither verification tool is ever invoked.                     *)
C9_CreateGated ==
    /\ Cardinality(Ops("create")) <= 1
    /\ \A c \in Ops("create") :
        /\ \E s \in Ops("sign") :
              /\ s < c
              /\ trace[s].rc = 0
              /\ trace[s].target = app_bundle
              /\ \E n \in Bundles : app_bundle.val = TempDirPath \o <<"/">>
                                       \o ContentsName \o <<"/">> \o n
        /\ verify =>
              \E v \in Ops("codesign_verify"), p \in Ops("spctl") :
                  v < p /\ p < c /\ Passed(v) /\ Passed(p)
    /\ ~verify => (~Invoked("codesign_verify") /\ ~Invoked("spctl"))

C9_Witness ==
    /\ Invoked("create")
    /\ Done
    /\ Cardinality(Bundles) = 2

(* C10 (as stated): a run that attached the image detaches it exactly      *)
(* once, after the copy and before scan, signing, verification or image    *)
(* creation, and no run terminates with the image still attached.          *)
C10_MountReleased ==
    /\ Done => ~attached
    /\ (Done /\ \E a \in Ops("attach") : trace[a].rc = 0) =>
          Cardinality(Ops("detach")) = 1
    /\ \A d \in Ops("detach") :
          /\ \E k \in Ops("copy") : k < d
          /\ \A j \in DOMAIN trace :
                trace[j].op \in { "scan", "sign", "codesign_verify", "spctl",
                                  "create" } => d < j

====
